---- MODULE Spec2Model ----
(***************************************************************************)
(* A model of the ocean-data pipeline: pipeline/fetch_noaa.py (date window, *)
(* caching download, dated resource locator, variable resolver, dataset    *)
(* normalisers) and pipeline/run_pipeline.py (the staged daily run).       *)
(*                                                                         *)
(* Numbers with a fraction are scaled to integers: latitudes, longitudes,  *)
(* sst and dhw are in tenths, ph in hundredths. A value that may be NaN or *)
(* None is a sequence: <<>> is null, <<v>> is the value v.                 *)
(***************************************************************************)
EXTENDS Integers, Sequences, FiniteSets, TLC

VARIABLES
    today,      \* date.today(), as days since 1970-01-01
    fastMode,   \* run_pipeline.FAST_MODE
    phUrl,      \* os.getenv("NOAA_PH_URL", "")
    served,     \* the bodies the remote servers answer a 200 with
    fs,         \* the cache directory: path -> file content, existing files only
    faults,     \* disk faults injected so far (bounded by MaxDiskFaults)
    round,      \* fetch_noaa_crw calls started before this one
    pc,         \* position of run_daily_pipeline
    exc,        \* the exception that left run_daily_pipeline ("" while none)
    loc,        \* the running _download_latest call: next candidate index
    sst,        \* result of _download_latest for SST: [path, date]
    dhw,        \* result of _download_latest for DHW: [path, date]
    probes,     \* the _download calls of the current/last _download_latest
    gets,       \* every requests.get of the run, in order
    last,       \* the last _download call: what it saw and what it did
    noaa,       \* run_daily_pipeline's noaa table
    ph,         \* run_daily_pipeline's ph table
    allen,      \* run_daily_pipeline's allen table (opaque)
    merged,     \* run_daily_pipeline's merged table
    collab,     \* how the external collaborators behaved in this run, and the
                \* number of rows spatial_merge returned
    forecast,   \* the forecast stage: its outcome and the collaborators it called
    records,    \* the records handed to the insert
    txn,        \* the transaction of db.engine.begin(): state and uncommitted rows
    store,      \* the committed rows of ocean_metrics, each with the run that wrote it
    race,       \* two runs inside _download of one path at once: where each is
    call        \* a helper called on its own: its arguments and what it returned

config == <<today, fastMode, phUrl, served>>
fetchVars == <<fs, faults, round, loc, sst, dhw, probes, gets, last>>
tableVars == <<noaa, ph, allen, merged, collab, forecast>>
dbVars == <<records, txn, store>>
callVars == <<race, call>>
vars == <<config, pc, exc, fetchVars, tableVars, dbVars, callVars>>

----------------------------------------------------------------------------
(* Optional values *)

Null == <<>>
Some(v) == <<v>>
IsNull(x) == x = <<>>

----------------------------------------------------------------------------
(* Dates: datetime.date arithmetic and strftime("%Y%m%d") *)

\* The (year, month, day) of a day number, as date - timedelta computes it:
\* the day of the 400-year era, the year of the era, the day of the year
\* counted from 1 March, the month counted from March.
CivilOfMonth(yoe, era, doy, mp) ==
    LET m == IF mp < 10 THEN mp + 3 ELSE mp - 9
    IN  [year  |-> yoe + era * 400 + (IF m <= 2 THEN 1 ELSE 0),
         month |-> m,
         day   |-> doy - (153 * mp + 2) \div 5 + 1]
CivilOfDoy(yoe, era, doy) == CivilOfMonth(yoe, era, doy, (5 * doy + 2) \div 153)
CivilOfYoe(era, doe, yoe) ==
    CivilOfDoy(yoe, era, doe - (365 * yoe + yoe \div 4 - yoe \div 100))
CivilOfDoe(era, doe) ==
    CivilOfYoe(era, doe,
               (doe - doe \div 1460 + doe \div 36524 - doe \div 146096) \div 365)
CivilOfEra(s, era) == CivilOfDoe(era, s - era * 146097)
Civil(z) == CivilOfEra(z + 719468, (z + 719468) \div 146097)

\* days_back's default, the window every _download_latest call uses
DaysBack == 3

\* d.strftime("%Y%m%d") read as a number: four digits of year, two of month, two of day.
YmdOf(c) == c.year * 10000 + c.month * 100 + c.day
Ymd(z) == YmdOf(Civil(z))

\* d.year
YearOf(z) == Civil(z).year

\* the window counted from range(1, days_back + 1): it starts yesterday
CandidateDatesFromYesterday(t, n) == [i \in 1..n |-> t - i]

\* _candidate_dates(days_back): [today - timedelta(days=i) for i in range(days_back)]
CandidateDates(t, n) == [i \in 1..n |-> t - (i - 1)]

----------------------------------------------------------------------------
(* Names *)

SstTmpl == "coraltemp_v3.1"
DhwTmpl == "ct5km_dhw_v3.1"
SstPrefix == "NOAA_SST"
DhwPrefix == "NOAA_DHW"

\* f"{base_url}/{d.year}/{fname}" with fname = fname_tmpl.format(date=YYYYMMDD)
UrlOf(base, tmpl, d) == <<base, YearOf(d), tmpl, Ymd(d)>>

\* f"{prefix}_{YYYYMMDD}.nc"
PathOf(prefix, d) == <<prefix, Ymd(d)>>

PhPath == <<"NOAA_PH_FILE", 0>>

----------------------------------------------------------------------------
(* The cache directory *)

Exists(fsys, path) == path \in DOMAIN fsys

\* with open(path, "wb") as f: f.write(content)
Put(fsys, path, content) ==
    [q \in DOMAIN fsys \cup {path} |-> IF q = path THEN content ELSE fsys[q]]

\* What a file holds after open(path, "wb") succeeded and f.write raised:
\* a created file with none or only part of the response in it.
Truncated == "truncated"

----------------------------------------------------------------------------
(* The network and the disk, as one attempt meets them *)

\* What the remote archive may answer with a 200 for each kind of resource:
\* a NetCDF body (named, see Dataset) or bytes that are no dataset at all.
Garbage == "garbage"
SstBodies == {"sst_std", "sst_alias", "sst_drift", Garbage}
DhwBodies == {"dhw_part", "dhw_drift", Garbage}
PhBodies  == {"ph_hi", "ph_lo", "ph_nocol", Garbage}
AllBodies == SstBodies \cup DhwBodies \cup PhBodies

\* One attempt's environment: requests.get raises (timeout, connection error),
\* or answers with a status; on a 200 the disk lets the write through, or
\* open() raises, or write() raises after open() created the file.
Resp(net, status, body, disk) ==
    [net |-> net, status |-> status, body |-> body, disk |-> disk]

Responses(bodies, diskFaultsLeft) ==
    {Resp("raise", 0, "-", "-"), Resp("http", 404, "-", "-")}
    \cup {Resp("http", 200, b, "ok") : b \in bodies}
    \cup (IF diskFaultsLeft
          THEN {Resp("http", 200, "-", k) : k \in {"open_raises", "write_raises"}}
          ELSE {})

\* Disk faults injected per behaviour
MaxDiskFaults == 1

IsDiskFault(resp) == resp.disk \in {"open_raises", "write_raises"}

----------------------------------------------------------------------------
(* _download(url, path) *)

DlResult(ok, fsys, get, wrote, escaped) ==
    [ok |-> ok, fs |-> fsys, get |-> get, wrote |-> wrote, escaped |-> escaped]

\* _download without the os.path.exists short cut of lines 25-26
DownloadUncached(fsys, url, path, resp) ==
    IF resp.net = "http" /\ resp.status = 200 /\ resp.disk = "ok"
    THEN DlResult(TRUE, Put(fsys, path, resp.body), TRUE, TRUE, FALSE)
    ELSE DlResult(Exists(fsys, path), fsys, TRUE, FALSE, FALSE)

Download(fsys, url, path, resp) ==
    IF Exists(fsys, path)
    THEN DlResult(TRUE, fsys, FALSE, FALSE, FALSE)
    ELSE IF resp.net = "raise"
    THEN DlResult(FALSE, fsys, TRUE, FALSE, FALSE)        \* except Exception
    ELSE IF resp.status = 200
    THEN CASE resp.disk = "ok" ->
                DlResult(TRUE, Put(fsys, path, resp.body), TRUE, TRUE, FALSE)
           [] resp.disk = "open_raises" ->
                DlResult(FALSE, fsys, TRUE, FALSE, FALSE)  \* except Exception
           [] resp.disk = "write_raises" ->
                DlResult(FALSE, Put(fsys, path, Truncated), TRUE, TRUE, FALSE)
    ELSE DlResult(FALSE, fsys, TRUE, FALSE, FALSE)

----------------------------------------------------------------------------
(* Tables (pandas DataFrames): the columns, the index labels, the rows *)

Frame(cols, index, rows) == [cols |-> cols, index |-> index, rows |-> rows]

\* RangeIndex(n): the labels 0..n-1
RangeIndex(n) == [i \in 1..n |-> i - 1]

NRows(df) == Len(df.rows)

\* row with column col set to v (added when absent)
WithCol(row, col, v) ==
    [c \in DOMAIN row \cup {col} |-> IF c = col THEN v ELSE row[c]]

\* df[col] = v, the same value on every row
AssignAll(df, col, v) ==
    Frame(df.cols \cup {col}, df.index,
          [i \in 1..NRows(df) |-> WithCol(df.rows[i], col, v)])

\* df[["lat", "lon", col]].rename(columns={col: name})
SelectAs(df, col, name) ==
    Frame({"lat", "lon", name}, df.index,
          [i \in 1..NRows(df) |->
              [c \in {"lat", "lon", name} |->
                  IF c = name THEN df.rows[i][col] ELSE df.rows[i][c]]])

\* The rows of left.merge(right, on=["lat", "lon"], how="left") for a right
\* table that brings the one column col: every left row in order, once per
\* matching right row, and once with col null when none matches.
RECURSIVE MergeRows(_, _, _)
MergeRows(lrows, rrows, col) ==
    IF lrows = <<>> THEN <<>>
    ELSE LET l  == Head(lrows)
             ms == SelectSeq(rrows, LAMBDA r : r.lat = l.lat /\ r.lon = l.lon)
             out == IF ms = <<>>
                    THEN <<WithCol(l, col, Null)>>
                    ELSE [k \in 1..Len(ms) |-> WithCol(l, col, ms[k][col])]
         IN  out \o MergeRows(Tail(lrows), rrows, col)

LeftMerge(left, right, col) ==
    LET rows == MergeRows(left.rows, right.rows, col)
    IN  Frame(left.cols \cup {col}, RangeIndex(Len(rows)), rows)

----------------------------------------------------------------------------
(* The datasets the archive serves, as xr.open_dataset(...).to_dataframe()  *)
(* .reset_index() reads them                                              *)

\* Grid points of the served datasets
GridN == 30

\* merged["ph"].notna().sum() >= 30
ForecastMinPh == 30

\* grid point i lies at latitude i.0, longitude 90.0
GridLat(i) == 10 * i
GridLon(i) == 900

\* a dataset of n grid points whose variable c holds vals[c][i] at point i
GridFrame(n, vals) ==
    Frame({"lat", "lon"} \cup DOMAIN vals, RangeIndex(n),
          [i \in 1..n |->
              [c \in {"lat", "lon"} \cup DOMAIN vals |->
                  IF c = "lat" THEN GridLat(i)
                  ELSE IF c = "lon" THEN GridLon(i) ELSE vals[c][i]]])

\* the values base + (i mod m) at the grid points 1..n
Cycle(n, base, m) == [i \in 1..n |-> Some(base + (i % m))]

Readable(content) == content \notin {Garbage, Truncated}

Dataset(body) ==
    CASE body = "sst_std" ->
            GridFrame(GridN, "sst" :> Cycle(GridN, 280, 3))
      [] body = "sst_alias" ->
            GridFrame(GridN, ("sea_surface_temperature" :> Cycle(GridN, 300, 3))
                             @@ ("analysed_sst" :> Cycle(GridN, 290, 3)))
      [] body = "sst_drift" ->
            GridFrame(GridN, "temperature" :> Cycle(GridN, 280, 1))
      [] body = "dhw_std" ->
            GridFrame(GridN, "dhw" :> Cycle(GridN, 0, 5))
      [] body = "dhw_part" ->
            GridFrame(GridN - 1, "degree_heating_week" :> Cycle(GridN - 1, 0, 5))
      [] body = "dhw_drift" ->
            GridFrame(GridN, "heat_stress" :> Cycle(GridN, 1, 1))
      [] body = "ph_hi" ->
            GridFrame(GridN, "ph" :> Cycle(GridN, 805, 4))
      [] body = "ph_lo" ->
            GridFrame(ForecastMinPh - 1, "ph" :> Cycle(ForecastMinPh - 1, 805, 4))
      [] body = "ph_nocol" ->
            GridFrame(GridN, "ph_total" :> Cycle(GridN, 805, 1))

----------------------------------------------------------------------------
(* _find_col(df, candidates) *)

\* the loop of lines 47-49 without its return: the last candidate present wins
RECURSIVE FindColLast(_, _)
FindColLast(cols, candidates) ==
    IF candidates = <<>> THEN Null
    ELSE IF candidates[Len(candidates)] \in cols
    THEN Some(candidates[Len(candidates)])
    ELSE FindColLast(cols, SubSeq(candidates, 1, Len(candidates) - 1))

RECURSIVE FindCol(_, _)
FindCol(cols, candidates) ==
    IF candidates = <<>> THEN Null
    ELSE IF Head(candidates) \in cols THEN Some(Head(candidates))
    ELSE FindCol(cols, Tail(candidates))

SstCandidates == <<"sst", "analysed_sst", "sea_surface_temperature">>
DhwCandidates == <<"dhw", "degree_heating_week">>

----------------------------------------------------------------------------
(* fetch_noaa_crw(), after its two _download_latest calls *)

\* what _download_latest returns: (path, d), or (None, None)
Found(path, d) == [path |-> Some(path), date |-> Some(d)]
NotFound == [path |-> Null, date |-> Null]

NoFrame == Frame({}, <<>>, <<>>)
Returned(df) == [raised |-> "", df |-> df]
Raised(what) == [raised |-> what, df |-> NoFrame]

\* a fallback table whose dhw is the 0.0 default of line 102
SyntheticCrwZeroDhw(t) ==
    Frame({"lat", "lon", "sst", "dhw", "date"}, RangeIndex(3),
          << [lat |-> 65, lon |-> 925, sst |-> Some(282), dhw |-> Some(0), date |-> t],
             [lat |-> 66, lon |-> 926, sst |-> Some(284), dhw |-> Some(0), date |-> t],
             [lat |-> 67, lon |-> 927, sst |-> Some(283), dhw |-> Some(0), date |-> t] >>)

\* the fallback demo data of fetch_noaa_crw
SyntheticCrw(t) ==
    Frame({"lat", "lon", "sst", "dhw", "date"}, RangeIndex(3),
          << [lat |-> 65, lon |-> 925, sst |-> Some(282), dhw |-> Some(5), date |-> t],
             [lat |-> 66, lon |-> 926, sst |-> Some(284), dhw |-> Some(6), date |-> t],
             [lat |-> 67, lon |-> 927, sst |-> Some(283), dhw |-> Some(7), date |-> t] >>)

\* the DHW part raising when no DHW name resolves, as line 86 does for SST
AttachDhwStrict(fsys, dhwRes, dfSst) ==
    LET present == ~IsNull(dhwRes.path) /\ Exists(fsys, dhwRes.path[1])
    IN  IF present /\ ~Readable(fsys[dhwRes.path[1]])
        THEN Raised("open_dhw")
        ELSE IF present /\ IsNull(FindCol(Dataset(fsys[dhwRes.path[1]]).cols, DhwCandidates))
        THEN Raised("dhw_var")
        ELSE LET joined == IF ~present THEN dfSst
                           ELSE LeftMerge(dfSst,
                                   SelectAs(Dataset(fsys[dhwRes.path[1]]),
                                            FindCol(Dataset(fsys[dhwRes.path[1]]).cols,
                                                    DhwCandidates)[1], "dhw"), "dhw")
             IN  Returned(IF "dhw" \notin joined.cols
                          THEN AssignAll(joined, "dhw", Some(0))
                          ELSE joined)

\* lines 91-104: the DHW join and the default
AttachDhw(fsys, dhwRes, dfSst) ==
    LET present == ~IsNull(dhwRes.path) /\ Exists(fsys, dhwRes.path[1])
    IN  IF present /\ ~Readable(fsys[dhwRes.path[1]])
        THEN Raised("open_dhw")                 \* xr.open_dataset raises
        ELSE LET dfDhw  == IF present THEN Dataset(fsys[dhwRes.path[1]]) ELSE NoFrame
                 dhwCol == IF present THEN FindCol(dfDhw.cols, DhwCandidates) ELSE Null
                 joined == IF IsNull(dhwCol) THEN dfSst
                           ELSE LeftMerge(dfSst, SelectAs(dfDhw, dhwCol[1], "dhw"), "dhw")
             IN  Returned(IF "dhw" \notin joined.cols
                          THEN AssignAll(joined, "dhw", Some(0))
                          ELSE joined)

\* lines 68-104
NormalizeCrw(fsys, sstRes, dhwRes, t) ==
    IF IsNull(sstRes.path) \/ ~Exists(fsys, sstRes.path[1])
    THEN Returned(SyntheticCrw(t))
    ELSE IF ~Readable(fsys[sstRes.path[1]])
    THEN Raised("open_sst")                     \* xr.open_dataset raises
    ELSE LET dfRaw  == Dataset(fsys[sstRes.path[1]])
             sstCol == FindCol(dfRaw.cols, SstCandidates)
         IN  IF IsNull(sstCol)
             THEN Raised("sst_var")             \* RuntimeError, line 86
             ELSE AttachDhw(fsys, dhwRes,
                     AssignAll(SelectAs(dfRaw, sstCol[1], "sst"), "date",
                               IF IsNull(sstRes.date) THEN t ELSE sstRes.date[1]))

----------------------------------------------------------------------------
(* fetch_noaa_ph() *)

\* the download of lines 113-120 without the os.path.exists test
PhDownloadAlways(fsys, url, resp) ==
    IF url # ""
    THEN [get |-> TRUE,
          fs  |-> IF resp.net = "http" /\ resp.status = 200 /\ resp.disk = "ok"
                  THEN Put(fsys, PhPath, resp.body) ELSE fsys]
    ELSE [get |-> FALSE, fs |-> fsys]

\* lines 113-120: the file system after the optional download, and whether a
\* GET was issued. Every exception of the attempt is passed over.
PhDownload(fsys, url, resp) ==
    IF url # "" /\ ~Exists(fsys, PhPath)
    THEN [get |-> TRUE,
          fs  |-> IF resp.net = "http" /\ resp.status = 200
                  THEN CASE resp.disk = "ok" -> Put(fsys, PhPath, resp.body)
                         [] resp.disk = "open_raises" -> fsys
                         [] resp.disk = "write_raises" -> Put(fsys, PhPath, Truncated)
                  ELSE fsys]                    \* get or raise_for_status raised
    ELSE [get |-> FALSE, fs |-> fsys]

\* the fallback demo data of fetch_noaa_ph
SyntheticPh(t) ==
    Frame({"lat", "lon", "ph", "date"}, RangeIndex(3),
          << [lat |-> 65, lon |-> 925, ph |-> Some(810), date |-> t],
             [lat |-> 66, lon |-> 926, ph |-> Some(811), date |-> t],
             [lat |-> 67, lon |-> 927, ph |-> Some(809), date |-> t] >>)

\* lines 122-136
NormalizePh(fsys, t) ==
    IF ~Exists(fsys, PhPath) THEN Returned(SyntheticPh(t))
    ELSE IF ~Readable(fsys[PhPath]) THEN Raised("open_ph")
    ELSE LET df == Dataset(fsys[PhPath])
         IN  IF "ph" \notin df.cols THEN Raised("ph_col")   \* KeyError, line 134
             ELSE Returned(AssignAll(SelectAs(df, "ph", "ph"), "date", t))

----------------------------------------------------------------------------
(* The external collaborators of run_daily_pipeline, by their contracts *)

\* clean_noaa: the same or a narrower row set, labels kept
CleanModes == {"keep", "drop_first"}
CleanNoaa(df, mode) ==
    IF mode = "keep" \/ NRows(df) = 0 THEN df
    ELSE Frame(df.cols, Tail(df.index), Tail(df.rows))

\* integrate_ph: pH left-joined onto the environmental table by (lat, lon)
IntegratePh(dfNoaa, dfPh) == LeftMerge(dfNoaa, dfPh, "ph")

\* spatial_merge: sst/dhw/ph preserved; a point matching two reefs comes
\* out twice under the label it came in with
MergeModes == {"keep", "dup_last"}
SpatialMerge(df, reefs, mode) ==
    IF mode = "keep" \/ NRows(df) = 0 THEN df
    ELSE Frame(df.cols, Append(df.index, df.index[NRows(df)]),
               Append(df.rows, df.rows[NRows(df)]))

\* health_score(row) and detect_anomaly(series)[i]: opaque pure functions,
\* kept as the terms of their applications
HealthScore(row) == <<"health_score", row.sst, row.dhw, row.ph>>
DetectAnomaly(rows, i) == <<"anomaly", i, rows[i].sst>>

\* float(forecast_lstm(...)[0]) when training and forecasting succeed
ForecastValue == Some(807)

----------------------------------------------------------------------------
(* run_daily_pipeline: the steps after the fetches *)

\* MAX_ROWS_FAST
MaxRowsFast == 5000

\* merged.sample(n, random_state=42): n rows picked without replacement by a
\* fixed pseudo-random order, each under its own label
SamplePos(k, total) == ((k * 7919) % total) + 1
Sample(df, n) ==
    Frame(df.cols, [k \in 1..n |-> df.index[SamplePos(k, NRows(df))]],
          [k \in 1..n |-> df.rows[SamplePos(k, NRows(df))]])

\* the cap of lines 67-68 applied whatever FAST_MODE is
FastSampleAlways(df, fast) ==
    IF NRows(df) > MaxRowsFast THEN Sample(df, MaxRowsFast) ELSE df

\* lines 67-68
FastSample(df, fast) ==
    IF fast /\ NRows(df) > MaxRowsFast THEN Sample(df, MaxRowsFast) ELSE df

\* lines 72-73
Score(df) ==
    Frame(df.cols \cup {"health_score", "anomaly"}, df.index,
          [i \in 1..NRows(df) |->
              WithCol(WithCol(df.rows[i], "health_score", HealthScore(df.rows[i])),
                      "anomaly", DetectAnomaly(df.rows, i))])

\* merged[col].notna().sum()
NotNaCount(df, col) == Cardinality({i \in 1..NRows(df) : ~IsNull(df.rows[i][col])})

\* the test of line 77 with > for >=
ForecastAttemptedOver(df, fast) == ~fast /\ NotNaCount(df, "ph") > ForecastMinPh

\* line 77
ForecastAttempted(df, fast) == ~fast /\ NotNaCount(df, "ph") >= ForecastMinPh

\* line 85: merged.loc[merged.index[-1], "forecast_ph"] = v, which sets every
\* row whose label is the last row's label
SetAtLastLabel(df, col, v) ==
    Frame(df.cols, df.index,
          [i \in 1..NRows(df) |->
              IF df.index[i] = df.index[NRows(df)]
              THEN WithCol(df.rows[i], col, v) ELSE df.rows[i]])

\* what the try block of lines 78-87 may meet
ForecastOutcomes == {"ok", "train_raises", "forecast_raises", "value_raises"}

\* lines 76-87: the table after the forecast stage
ForecastStage(df, fast, outcome) ==
    LET base == AssignAll(df, "forecast_ph", Null)
    IN  IF ForecastAttempted(df, fast) /\ outcome = "ok"
        THEN SetAtLastLabel(base, "forecast_ph", ForecastValue)
        ELSE base

\* the collaborators the forecast stage called
ForecastCalls(attempted, outcome) ==
    [train    |-> IF attempted THEN 1 ELSE 0,
     forecast |-> IF attempted /\ outcome # "train_raises" THEN 1 ELSE 0]

\* lines 93-110: the projection, lat/lon renamed
PersistCols == {"date", "lat", "lon", "sst", "dhw", "ph",
                "health_score", "anomaly", "forecast_ph"}
Rename(c) == IF c = "lat" THEN "latitude" ELSE IF c = "lon" THEN "longitude" ELSE c
ToRecords(df) ==
    [i \in 1..NRows(df) |->
        [c \in {Rename(k) : k \in PersistCols} |->
            df.rows[i][CHOOSE k \in PersistCols : Rename(k) = c]]]

----------------------------------------------------------------------------
(* _download_latest(base_url, fname_tmpl, prefix) *)

SstSource == [base |-> "NOAA_SST_BASE_URL", tmpl |-> SstTmpl,
              prefix |-> SstPrefix, bodies |-> SstBodies]
DhwSource == [base |-> "NOAA_DHW_BASE_URL", tmpl |-> DhwTmpl,
              prefix |-> DhwPrefix, bodies |-> DhwBodies]

\* One turn of the loop of lines 38-44 at candidate i of n, given what
\* _download answered: return (path, d), go on to the next date, or return
\* (None, None) after the last.
\* the loop giving up on the last date whatever _download answered
LatestStepSkipsLast(i, n, ok, path, d) ==
    IF i >= n THEN [done |-> TRUE, result |-> NotFound, next |-> i]
    ELSE IF ok THEN [done |-> TRUE, result |-> Found(path, d), next |-> i]
    ELSE [done |-> FALSE, result |-> NotFound, next |-> i + 1]

\* the loop without the return of line 43 before the last date
LatestStepNoStop(i, n, ok, path, d) ==
    IF i >= n THEN [done |-> TRUE,
                    result |-> IF ok THEN Found(path, d) ELSE NotFound, next |-> i]
    ELSE [done |-> FALSE, result |-> NotFound, next |-> i + 1]

\* the loop returning the date of the first candidate with the path it found
LatestStepFirstDate(i, n, ok, path, d) ==
    IF ok THEN [done |-> TRUE, result |-> Found(path, d + (i - 1)), next |-> i]
    ELSE IF i >= n THEN [done |-> TRUE, result |-> NotFound, next |-> i]
    ELSE [done |-> FALSE, result |-> NotFound, next |-> i + 1]

LatestStep(i, n, ok, path, d) ==
    IF ok THEN [done |-> TRUE, result |-> Found(path, d), next |-> i]
    ELSE IF i >= n THEN [done |-> TRUE, result |-> NotFound, next |-> i]
    ELSE [done |-> FALSE, result |-> NotFound, next |-> i + 1]

NoCall == [path |-> <<>>, url |-> <<>>, existed |-> FALSE, before |-> <<>>,
           resp |-> Resp("-", 0, "-", "-"), ok |-> FALSE, get |-> FALSE,
           wrote |-> FALSE]

----------------------------------------------------------------------------
(* The initial state *)

\* The row an earlier run (run 0) committed
OldRows == <<[run |-> 0, rec |-> <<"earlier">>]>>

\* the runs that race in _download, and a run that is in no race
Procs == {"run_a", "run_b"}
RaceAt(where) == [p \in Procs |-> [pc |-> where, body |-> "-", ok |-> FALSE, used |-> "-"]]
NoRace == RaceAt("-")

\* a helper call with its arguments, before it ran; and no such call
Call(fn, cols, candidates, n) ==
    [fn |-> fn, cols |-> cols, candidates |-> candidates, n |-> n,
     returned |-> FALSE, col |-> Null, dates |-> <<>>]
NoHelperCall == Call("-", {}, <<>>, 0)

InitWith(t, fasts, urls, caches, faults0, bodies) ==
    /\ race = NoRace
    /\ call = NoHelperCall
    /\ today = t
    /\ fastMode \in fasts
    /\ phUrl \in urls
    /\ served = bodies
    /\ fs \in caches
    /\ faults = faults0
    /\ round = 0
    /\ pc = "sst_locate"
    /\ exc = ""
    /\ loc = 1
    /\ sst = NotFound
    /\ dhw = NotFound
    /\ probes = <<>>
    /\ gets = <<>>
    /\ last = NoCall
    /\ noaa = NoFrame
    /\ ph = NoFrame
    /\ allen = ""
    /\ merged = NoFrame
    /\ collab = [clean |-> "", merge |-> "", rows |-> 0]
    /\ forecast = [outcome |-> "", train |-> 0, forecast |-> 0]
    /\ records = <<>>
    /\ txn = [state |-> "none", rows |-> <<>>, sent |-> 0]
    /\ store = OldRows

\* The cache directory a run may start with: empty; or what an earlier run of
\* the day left (SST and DHW resolved to different days); or the file a
\* failed write left behind; or the pH file.
RunCaches(t) ==
    { <<>>,
      (PathOf(SstPrefix, t - 1) :> "sst_std") @@ (PathOf(DhwPrefix, t - 2) :> "dhw_part"),
      (PathOf(SstPrefix, t) :> Truncated),
      (PhPath :> "ph_hi") }

\* One run of run_daily_pipeline on 2024-01-01 (day 19723; the window crosses
\* a year), the disk sound
Init == InitWith(19723, BOOLEAN, {"", "https://ph.example/ph.nc"},
                 RunCaches(19723), MaxDiskFaults, AllBodies)

----------------------------------------------------------------------------
(* run_daily_pipeline, step by step *)

\* Step 1, fetch_noaa_crw lines 58-66: one _download of a _download_latest loop
Probe ==
    /\ pc \in {"sst_locate", "dhw_locate"}
    /\ \E src \in {IF pc = "sst_locate" THEN SstSource ELSE DhwSource},
          d \in {CandidateDates(today, DaysBack)[loc]} :
        \E url \in {UrlOf(src.base, src.tmpl, d)}, path \in {PathOf(src.prefix, d)} :
        \E resp \in Responses(src.bodies \cap served, faults < MaxDiskFaults) :
        \E r \in {Download(fs, url, path, resp)} :
        \E step \in {LatestStep(loc, DaysBack, r.ok, path, d)} :
             /\ fs' = r.fs
             /\ faults' = IF r.get /\ IsDiskFault(resp) THEN faults + 1 ELSE faults
             /\ gets' = IF r.get THEN Append(gets, url) ELSE gets
             /\ probes' = (IF loc = 1 THEN <<>> ELSE probes)
                             \o <<[path |-> path, date |-> d, ok |-> r.ok]>>
             /\ last' = [path |-> path, url |-> url, existed |-> Exists(fs, path),
                         before |-> fs,
                         resp |-> IF r.get THEN resp ELSE NoCall.resp,
                         ok |-> r.ok, get |-> r.get, wrote |-> r.wrote]
             /\ IF r.escaped
                THEN /\ exc' = "download" /\ pc' = "aborted"
                     /\ UNCHANGED <<loc, sst, dhw>>
                ELSE /\ exc' = exc
                     /\ loc' = IF step.done THEN 1 ELSE step.next
                     /\ sst' = IF step.done /\ pc = "sst_locate"
                               THEN step.result ELSE sst
                     /\ dhw' = IF step.done /\ pc = "dhw_locate"
                               THEN step.result ELSE dhw
                     /\ pc' = IF ~step.done THEN pc
                              ELSE IF pc = "sst_locate" THEN "dhw_locate"
                              ELSE "normalize"
    /\ UNCHANGED <<config, callVars, round, tableVars, dbVars>>

\* Step 1, fetch_noaa_crw lines 68-104
Normalize ==
    /\ pc = "normalize"
    /\ \E r \in {NormalizeCrw(fs, sst, dhw, today)} :
         IF r.raised # ""
         THEN exc' = r.raised /\ pc' = "aborted" /\ noaa' = noaa
         ELSE exc' = exc /\ pc' = "fetch_ph" /\ noaa' = r.df
    /\ UNCHANGED <<config, callVars, fetchVars, ph, allen, merged, collab, forecast, dbVars>>

\* Step 1, fetch_noaa_ph
FetchPh ==
    /\ pc = "fetch_ph"
    /\ \E resp \in Responses(PhBodies \cap served, faults < MaxDiskFaults) :
        \E dl \in {PhDownload(fs, phUrl, resp)} :
        \E r \in {NormalizePh(dl.fs, today)} :
             /\ fs' = dl.fs
             /\ faults' = IF dl.get /\ IsDiskFault(resp) THEN faults + 1 ELSE faults
             /\ gets' = IF dl.get THEN Append(gets, <<phUrl>>) ELSE gets
             /\ last' = [path |-> PhPath, url |-> <<phUrl>>,
                         existed |-> Exists(fs, PhPath), before |-> fs,
                         resp |-> IF dl.get THEN resp ELSE NoCall.resp,
                         ok |-> Exists(dl.fs, PhPath), get |-> dl.get,
                         wrote |-> dl.fs # fs]
             /\ IF r.raised # ""
                THEN exc' = r.raised /\ pc' = "aborted" /\ ph' = ph
                ELSE exc' = exc /\ pc' = "fetch_allen" /\ ph' = r.df
    /\ UNCHANGED <<config, callVars, round, loc, sst, dhw, probes, noaa, allen, merged,
                   collab, forecast, dbVars>>

\* Step 2, line 51: fetch_allen_coral_atlas(noaa_df=noaa)
FetchAllen ==
    /\ pc = "fetch_allen"
    /\ allen' = "reefs"
    /\ pc' = "clean"
    /\ UNCHANGED <<config, callVars, exc, fetchVars, noaa, ph, merged, collab, forecast, dbVars>>

\* Step 3, lines 55-56: clean_noaa and clean_allen
Clean ==
    /\ pc = "clean"
    /\ \E mode \in CleanModes :
         /\ noaa' = CleanNoaa(noaa, mode)
         /\ collab' = [collab EXCEPT !.clean = mode]
    /\ allen' = "clean reefs"
    /\ pc' = "integrate_ph"
    /\ UNCHANGED <<config, callVars, exc, fetchVars, ph, merged, forecast, dbVars>>

\* Step 4, line 60
Integrate ==
    /\ pc = "integrate_ph"
    /\ merged' = IntegratePh(noaa, ph)
    /\ pc' = "spatial_merge"
    /\ UNCHANGED <<config, callVars, exc, fetchVars, noaa, ph, allen, collab, forecast, dbVars>>

\* Step 5, line 64
Spatial ==
    /\ pc = "spatial_merge"
    /\ \E mode \in MergeModes :
         /\ merged' = SpatialMerge(merged, allen, mode)
         /\ collab' = [collab EXCEPT !.merge = mode,
                                      !.rows = NRows(SpatialMerge(merged, allen, mode))]
    /\ pc' = "sample"
    /\ UNCHANGED <<config, callVars, exc, fetchVars, noaa, ph, allen, forecast, dbVars>>

\* a fast mode that leaves out the scoring of lines 72-73 as well
SampleStepSkipsScore ==
    /\ pc = "sample"
    /\ merged' = FastSample(merged, fastMode)
    /\ pc' = IF fastMode THEN "forecast" ELSE "score"
    /\ UNCHANGED <<config, callVars, exc, fetchVars, noaa, ph, allen, collab, forecast, dbVars>>

\* lines 67-68
SampleStep ==
    /\ pc = "sample"
    /\ merged' = FastSample(merged, fastMode)
    /\ pc' = "score"
    /\ UNCHANGED <<config, callVars, exc, fetchVars, noaa, ph, allen, collab, forecast, dbVars>>

\* Step 6, lines 72-73
ScoreStep ==
    /\ pc = "score"
    /\ merged' = Score(merged)
    /\ pc' = "forecast"
    /\ UNCHANGED <<config, callVars, exc, fetchVars, noaa, ph, allen, collab, forecast, dbVars>>

\* a try block that ends before line 85
ForecastCaughtBeforeWrite(outcome) == outcome # "value_raises"

\* lines 78 and 86: whether the except clause catches what the try block raised
ForecastCaught(outcome) == TRUE

\* lines 76-87; an exception that left the try block would end the run
ForecastStep ==
    /\ pc = "forecast"
    /\ \E attempted \in {ForecastAttempted(merged, fastMode)} :
        \E outcome \in ForecastOutcomes :
        \E calls \in {ForecastCalls(attempted, outcome)} :
             /\ merged' = ForecastStage(merged, fastMode, outcome)
             /\ forecast' = [outcome  |-> IF attempted THEN outcome ELSE "not_attempted",
                             train    |-> calls.train,
                             forecast |-> calls.forecast]
             /\ IF attempted /\ outcome # "ok" /\ ~ForecastCaught(outcome)
                THEN exc' = "forecast" /\ pc' = "aborted"
                ELSE exc' = exc /\ pc' = "persist_init"
    /\ UNCHANGED <<config, callVars, fetchVars, noaa, ph, allen, collab, dbVars>>

\* Step 7, lines 91-110: db.init_db() and the records
PersistInit ==
    /\ pc = "persist_init"
    /\ \E up \in BOOLEAN :
         IF up
         THEN records' = ToRecords(merged) /\ pc' = "insert" /\ exc' = exc
         ELSE records' = records /\ pc' = "aborted" /\ exc' = "persist"
    /\ UNCHANGED <<config, callVars, fetchVars, tableVars, txn, store>>

\* the numbers of rows an insert that fails may have got through before it failed
FailPoints(n) == {j \in {0, n \div 2, n - 1} : j >= 0 /\ (j < n \/ j = 0)}

\* lines 114-118: with db.engine.begin() as conn: conn.execute(insert, records)
Insert ==
    /\ pc = "insert"
    /\ \/ txn' = [state |-> "open", rows |-> records, sent |-> Len(records)]
       \/ \E j \in FailPoints(Len(records)) :
            txn' = [state |-> "failed", rows |-> SubSeq(records, 1, j), sent |-> j]
    /\ pc' = "end_transaction"
    /\ UNCHANGED <<config, callVars, exc, fetchVars, tableVars, records, store>>

\* every row visible as soon as it is inserted, as without a transaction
VisibleAutocommit(st, t, committed) ==
    st \o [i \in 1..Len(t.rows) |-> [run |-> 1, rec |-> t.rows[i]]]

\* What leaving the with block makes visible: the whole batch on a commit,
\* nothing on a rollback.
Visible(st, t, committed) ==
    IF committed THEN st \o [i \in 1..Len(t.rows) |-> [run |-> 1, rec |-> t.rows[i]]]
    ELSE st

\* leaving the with block of line 114: commit, or roll back and re-raise
EndTransaction ==
    /\ pc = "end_transaction"
    /\ \E commits \in BOOLEAN :
         LET committed == txn.state = "open" /\ commits
         IN  /\ store' = Visible(store, txn, committed)
             /\ txn' = [state |-> IF committed THEN "committed" ELSE "rolled_back",
                        rows |-> <<>>, sent |-> txn.sent]
             /\ pc' = IF committed THEN "done" ELSE "aborted"
             /\ exc' = IF committed THEN exc ELSE "persist"
    /\ UNCHANGED <<config, callVars, fetchVars, tableVars, records>>

Next ==
    \/ Probe
    \/ Normalize
    \/ FetchPh
    \/ FetchAllen
    \/ Clean
    \/ Integrate
    \/ Spatial
    \/ SampleStep
    \/ ScoreStep
    \/ ForecastStep
    \/ PersistInit
    \/ Insert
    \/ EndTransaction

Spec == Init /\ [][Next]_vars

----------------------------------------------------------------------------
(* The acquisition layer on its own: fetch_noaa_crw's two _download_latest  *)
(* calls, made again and again over the cache they leave, on 2024-03-01     *)
(* (day 19783; the window crosses 29 February), with a disk that may fail. *)

\* fetch_noaa_crw calls made one after another
MaxCalls == 2

InitAcquire == InitWith(19783, {TRUE}, {""}, {<<>>}, 0, AllBodies)

\* the next call of fetch_noaa_crw starts (lines 58-60)
NextCall ==
    /\ pc = "normalize"
    /\ round + 1 < MaxCalls
    /\ round' = round + 1
    /\ pc' = "sst_locate"
    /\ UNCHANGED <<config, callVars, exc, fs, faults, loc, sst, dhw, probes, gets, last,
                   tableVars, dbVars>>

NextAcquire == Probe \/ NextCall

SpecAcquire == InitAcquire /\ [][NextAcquire]_vars

----------------------------------------------------------------------------
(* Pipeline runs one after another over the cache directory they share, as  *)
(* far as they touch it: fetch_noaa_crw and fetch_noaa_ph of each run, with *)
(* the pH URL set and a disk that may fail.                                *)

\* the servers answer with well-formed datasets only, two for SST and for pH
RunsBodies == {"sst_std", "sst_alias", "dhw_part", "ph_hi", "ph_lo"}

InitRuns ==
    InitWith(19783, {TRUE}, {"https://ph.example/ph.nc"}, {<<>>}, 0, RunsBodies)

\* The run is past its fetches (or an exception ended it), and the next run
\* starts: nothing after line 47 reads or writes a cache file.
NextRun ==
    /\ pc \in {"fetch_allen", "aborted"}
    /\ round + 1 < MaxCalls
    /\ round' = round + 1
    /\ pc' = "sst_locate"
    /\ exc' = ""
    /\ loc' = 1
    /\ sst' = NotFound
    /\ dhw' = NotFound
    /\ noaa' = NoFrame
    /\ ph' = NoFrame
    /\ probes' = <<>>
    /\ gets' = <<>>
    /\ last' = NoCall
    /\ UNCHANGED <<config, callVars, fs, faults, allen, merged, collab, forecast, dbVars>>

NextRuns == Probe \/ Normalize \/ FetchPh \/ NextRun

SpecRuns == InitRuns /\ [][NextRuns]_vars

----------------------------------------------------------------------------
(* Two runs of the same day at once, without locking: each inside          *)
(* _download(url, path) for today's SST file, statement by statement, and  *)
(* then at the xr.open_dataset of the file it was told is there.           *)

RacePath == PathOf(SstPrefix, today)

InitRace ==
    /\ today = 19723
    /\ fastMode = TRUE
    /\ phUrl = ""
    /\ served = RunsBodies
    /\ fs = <<>>
    /\ faults = MaxDiskFaults
    /\ round = 0
    /\ pc = "sst_locate"
    /\ exc = ""
    /\ loc = 1
    /\ sst = NotFound
    /\ dhw = NotFound
    /\ probes = <<>>
    /\ gets = <<>>
    /\ last = NoCall
    /\ noaa = NoFrame
    /\ ph = NoFrame
    /\ allen = ""
    /\ merged = NoFrame
    /\ collab = [clean |-> "", merge |-> "", rows |-> 0]
    /\ forecast = [outcome |-> "", train |-> 0, forecast |-> 0]
    /\ records = <<>>
    /\ txn = [state |-> "none", rows |-> <<>>, sent |-> 0]
    /\ store = OldRows
    /\ race = RaceAt("exists")
    /\ call = NoHelperCall

RaceUnchanged ==
    UNCHANGED <<config, call, pc, exc, faults, round, loc, sst, dhw, probes, last,
                tableVars, dbVars>>

\* line 25: if os.path.exists(path): return True
RaceExists(p) ==
    /\ race[p].pc = "exists"
    /\ race' = [race EXCEPT ![p].pc = IF Exists(fs, RacePath) THEN "open_dataset" ELSE "get",
                            ![p].ok = Exists(fs, RacePath)]
    /\ UNCHANGED <<fs, gets>>
    /\ RaceUnchanged

\* lines 28-29 and 33-35: the GET; anything but a 200 ends the call with False
RaceGet(p) ==
    /\ race[p].pc = "get"
    /\ \E resp \in Responses(SstBodies \cap served, FALSE) :
         race' = [race EXCEPT ![p].pc = IF resp.status = 200 THEN "open" ELSE "returned_false",
                              ![p].body = resp.body]
    /\ gets' = Append(gets, UrlOf(SstSource.base, SstSource.tmpl, today))
    /\ UNCHANGED fs
    /\ RaceUnchanged

\* line 30: open(path, "wb") creates the file, or empties the one that is there
RaceOpen(p) ==
    /\ race[p].pc = "open"
    /\ fs' = Put(fs, RacePath, Truncated)
    /\ race' = [race EXCEPT ![p].pc = "write"]
    /\ UNCHANGED gets
    /\ RaceUnchanged

\* lines 31-32: f.write(r.content), the file is closed, return True
RaceWrite(p) ==
    /\ race[p].pc = "write"
    /\ fs' = Put(fs, RacePath, race[p].body)
    /\ race' = [race EXCEPT ![p].pc = "open_dataset", ![p].ok = TRUE]
    /\ UNCHANGED gets
    /\ RaceUnchanged

\* fetch_noaa_crw lines 68 and 80: the run that was told True reads the file
RaceOpenDataset(p) ==
    /\ race[p].pc = "open_dataset"
    /\ Exists(fs, RacePath)
    /\ race' = [race EXCEPT ![p].pc = "read", ![p].used = fs[RacePath]]
    /\ UNCHANGED <<fs, gets>>
    /\ RaceUnchanged

NextRace ==
    \E p \in Procs :
        \/ RaceExists(p)
        \/ RaceGet(p)
        \/ RaceOpen(p)
        \/ RaceWrite(p)
        \/ RaceOpenDataset(p)

SpecRace == InitRace /\ [][NextRace]_vars

----------------------------------------------------------------------------
(* The helpers of fetch_noaa.py called on their own, over all small inputs *)

\* Column names a table may carry and a candidate list may name
ColNames == {"sst", "analysed_sst", "sea_surface_temperature", "lat", "lon"}

\* Longest candidate list
MaxCandidates == 3

SeqsUpTo(S, n) == UNION {[1..k -> S] : k \in 0..n}

\* everything but the day and the helper call: a run that has not begun
HelperIdle ==
    /\ fastMode = TRUE /\ phUrl = "" /\ served = AllBodies
    /\ fs = <<>> /\ faults = 0 /\ round = 0 /\ pc = "sst_locate" /\ exc = ""
    /\ loc = 1 /\ sst = NotFound /\ dhw = NotFound
    /\ probes = <<>> /\ gets = <<>> /\ last = NoCall
    /\ noaa = NoFrame /\ ph = NoFrame /\ allen = "" /\ merged = NoFrame
    /\ collab = [clean |-> "", merge |-> "", rows |-> 0]
    /\ forecast = [outcome |-> "", train |-> 0, forecast |-> 0]
    /\ records = <<>>
    /\ txn = [state |-> "none", rows |-> <<>>, sent |-> 0]
    /\ store = OldRows
    /\ race = NoRace

InitFindCol ==
    /\ today = 19723
    /\ HelperIdle
    /\ \E cols \in SUBSET ColNames, cands \in SeqsUpTo(ColNames, MaxCandidates) :
         call = Call("_find_col", cols, cands, 0)

\* _find_col(df, candidates) runs and returns
FindColCall ==
    /\ call.fn = "_find_col" /\ ~call.returned
    /\ call' = [call EXCEPT !.returned = TRUE,
                            !.col = FindCol(call.cols, call.candidates)]
    /\ UNCHANGED <<config, pc, exc, fetchVars, tableVars, dbVars, race>>

SpecFindCol == InitFindCol /\ [][FindColCall]_vars

\* The days _candidate_dates is called on: 2023-12-29 to 2024-03-08 (the end
\* of a year, the 29 February of a leap year) and 2025-02-27 to 2025-03-03
\* (the end of a February of 28 days)
DaySet == (19720..19790) \cup (20146..20150)

\* Largest days_back
MaxWindow == 4

InitDates ==
    /\ today \in DaySet
    /\ HelperIdle
    /\ \E n \in 0..MaxWindow : call = Call("_candidate_dates", {}, <<>>, n)

\* _candidate_dates(days_back) runs and returns
CandidateDatesCall ==
    /\ call.fn = "_candidate_dates" /\ ~call.returned
    /\ call' = [call EXCEPT !.returned = TRUE,
                            !.dates = CandidateDates(today, call.n)]
    /\ UNCHANGED <<config, pc, exc, fetchVars, tableVars, dbVars, race>>

SpecDates == InitDates /\ [][CandidateDatesCall]_vars

----------------------------------------------------------------------------
(* The run from spatial_merge on, over tables around and above the fast-mode *)
(* cap: the SST file of the day resolved to a large grid, no DHW file, the  *)
(* pH URL unset (so ph is null on every row of the merged table).          *)

\* the row counts integrate_ph hands to spatial_merge
CapSizes == {3, MaxRowsFast - 1, MaxRowsFast, MaxRowsFast + 3000}

\* the table fetch_noaa_crw returns for an SST grid of n points and no DHW
BigNoaa(n, t) ==
    AssignAll(AssignAll(SelectAs(GridFrame(n, "sst" :> Cycle(n, 280, 3)), "sst", "sst"),
                        "date", t),
              "dhw", Some(0))

InitCap ==
    /\ today = 19723
    /\ fastMode \in BOOLEAN
    /\ phUrl = ""
    /\ served = AllBodies
    /\ race = NoRace
    /\ call = NoHelperCall
    /\ fs = (PathOf(SstPrefix, 19723) :> "sst_big")
    /\ faults = MaxDiskFaults
    /\ round = 0
    /\ pc = "spatial_merge"
    /\ exc = ""
    /\ loc = 1
    /\ sst = Found(PathOf(SstPrefix, 19723), 19723)
    /\ dhw = NotFound
    /\ probes = <<>>
    /\ gets = <<>>
    /\ last = NoCall
    /\ \E n \in CapSizes :
          /\ noaa = BigNoaa(n, 19723)
          /\ merged = AssignAll(BigNoaa(n, 19723), "ph", Null)
    /\ ph = SyntheticPh(19723)
    /\ allen = "clean reefs"
    /\ collab = [clean |-> "keep", merge |-> "", rows |-> 0]
    /\ forecast = [outcome |-> "", train |-> 0, forecast |-> 0]
    /\ records = <<>>
    /\ txn = [state |-> "none", rows |-> <<>>, sent |-> 0]
    /\ store = OldRows

NextCap ==
    \/ Spatial
    \/ SampleStep
    \/ ScoreStep
    \/ ForecastStep
    \/ PersistInit
    \/ Insert
    \/ EndTransaction

SpecCap == InitCap /\ [][NextCap]_vars

----------------------------------------------------------------------------
(* Properties of the acquisition layer *)

Locating == pc \in {"sst_locate", "dhw_locate"}

\* A _download_latest call has just returned: probes is its log, and its
\* result is in sst (the DHW call not yet begun) or in dhw.
CallReturned == (pc = "dhw_locate" /\ loc = 1) \/ pc = "normalize"
RetPrefix == IF pc = "dhw_locate" THEN SstPrefix ELSE DhwPrefix
RetResult == IF pc = "dhw_locate" THEN sst ELSE dhw

\* the k-th candidate of the window d1 > d2 > ... > dN
WindowDate(k) == today - (k - 1)

FailedOn(k) ==
    \E i \in 1..Len(probes) : probes[i].date = WindowDate(k) /\ ~probes[i].ok
SucceededOn(k) ==
    \E i \in 1..Len(probes) : probes[i].date = WindowDate(k) /\ probes[i].ok

\* C1: when _download_latest returns, either _download failed for every date
\* of the window and the result is (None, None), or it succeeded for some
\* k-th date after failing for every earlier one and the result is
\* (the cache path of dk, dk), whatever files the later dates have.
C1_FirstSuccessWins ==
    CallReturned =>
        /\ (\A k \in 1..DaysBack : FailedOn(k)) \/
           (\E k \in 1..DaysBack : SucceededOn(k) /\ \A j \in 1..(k - 1) : FailedOn(j))
        /\ (\A k \in 1..DaysBack : FailedOn(k) /\ ~SucceededOn(k))
              => RetResult = NotFound
        /\ \A k \in 1..DaysBack :
              (SucceededOn(k) /\ \A j \in 1..(k - 1) : FailedOn(j))
                 => RetResult = Found(PathOf(RetPrefix, WindowDate(k)), WindowDate(k))

\* C1 witness: the call returned the second date after the first failed, while
\* the third date's file lies in the cache (a _download of it would succeed).
C1_Witness ==
    /\ CallReturned
    /\ RetResult.date = Some(WindowDate(2))
    /\ FailedOn(1)
    /\ Exists(fs, PathOf(RetPrefix, WindowDate(3)))

\* the path of the _download call a Probe step is about to make
CurPath == PathOf(IF pc = "sst_locate" THEN SstPrefix ELSE DhwPrefix, WindowDate(loc))

\* C2: a _download call on a path whose file exists reports success (the
\* _download_latest call returns that path), issues no GET and leaves every
\* file as it is, whatever the network would have answered.
C2_CacheHitNoNetwork ==
    [][ (Locating /\ Exists(fs, CurPath))
          => /\ fs' = fs
             /\ gets' = gets
             /\ last'.ok /\ ~last'.get /\ ~last'.wrote
             /\ pc' # pc
             /\ (IF pc = "sst_locate" THEN sst' ELSE dhw')
                    = Found(CurPath, WindowDate(loc)) ]_vars

\* C2 witness: a _download call found its file in the cache, after an earlier
\* call of the same behaviour had fetched it.
C2_Witness == last.existed /\ last.ok /\ round > 0 /\ Len(gets) > 0

\* an attempt that cannot end well: requests.get raised, the status is not
\* 200, or the disk failed while the response was written
AttemptFails(resp) ==
    resp.net = "raise" \/ resp.status # 200 \/ IsDiskFault(resp)

\* C3: a _download call on a path with no file that ends in failure returns
\* False, lets no exception out, and leaves no file at the path.
C3_FailureLeavesNoFile ==
    (last.get /\ AttemptFails(last.resp))
        => ~last.ok /\ exc = "" /\ ~Exists(fs, last.path)

\* C4: the dates of one _download_latest call are probed in the order
\* d1, d2, ..., each within the window and at most once, none after a
\* success; so at most N probes, and exactly k when dk is the first success.
C4_SequentialShortCircuit ==
    /\ Len(probes) <= DaysBack
    /\ \A i \in 1..Len(probes) : probes[i].date = WindowDate(i)
    /\ \A i \in 1..(Len(probes) - 1) : ~probes[i].ok
    /\ (Locating /\ loc > 1) => Len(probes) = loc - 1
    /\ CallReturned =>
          \A k \in 1..DaysBack :
             RetResult.date = Some(WindowDate(k)) => Len(probes) = k

\* C4 witness: a call that returned the third date after exactly three probes
C4_Witness ==
    /\ CallReturned
    /\ RetResult.date = Some(WindowDate(3))
    /\ Len(probes) = 3

----------------------------------------------------------------------------
(* Properties of the pipeline run *)

\* the records of this run that are visible in the store
Persisted ==
    LET mine == SelectSeq(store, LAMBDA r : r.run = 1)
    IN  [i \in 1..Len(mine) |-> mine[i].rec]

ForecastNullOn(rows) == \A i \in 1..Len(rows) : IsNull(rows[i].forecast_ph)

ForecastFailed ==
    forecast.outcome \in {"train_raises", "forecast_raises", "value_raises"}

\* C5: when the forecast stage is attempted and training, forecasting or the
\* writing of the value raises, the exception does not leave the stage,
\* forecast_ph is null on every row (of the table, of the records, of what
\* is persisted), and the run goes on to the persist step: it ends done, or
\* aborted by the persist step alone.
C5_ForecastFailureIsolated ==
    ForecastFailed =>
        /\ exc # "forecast"
        /\ pc \in {"persist_init", "insert", "end_transaction", "done", "aborted"}
        /\ pc = "aborted" => exc = "persist"
        /\ ForecastNullOn(merged.rows)
        /\ ForecastNullOn(records)
        /\ ForecastNullOn(Persisted)

\* C5 witness: the write of the forecast value raised, and the run completed
\* with its rows persisted.
C5_Witness ==
    /\ forecast.outcome = "value_raises"
    /\ pc = "done"
    /\ Len(Persisted) >= 30

\* the forecast stage is over
AfterForecast ==
    pc \in {"persist_init", "insert", "end_transaction", "done"}
    \/ (pc = "aborted" /\ exc = "persist")

\* merged["ph"].notna().sum()
PhCount == Cardinality({i \in 1..Len(merged.rows) : ~IsNull(merged.rows[i].ph)})

\* C6: train_lstm is called exactly in the runs with fast mode off and at
\* least 30 non-null pH values, forecast_lstm only in those; in every other
\* run neither is called and forecast_ph is null on every row persisted.
C6_ForecastOnlyWhenEligible ==
    /\ (forecast.train > 0 \/ forecast.forecast > 0) => AfterForecast
    /\ AfterForecast =>
          /\ forecast.train > 0 <=> (~fastMode /\ PhCount >= 30)
          /\ forecast.forecast > 0 => (~fastMode /\ PhCount >= 30)
          /\ ~(~fastMode /\ PhCount >= 30) =>
                /\ forecast.train = 0 /\ forecast.forecast = 0
                /\ ForecastNullOn(merged.rows)
                /\ ForecastNullOn(records)
                /\ ForecastNullOn(Persisted)

\* C6 witness: both collaborators were called in a run with fast mode off and
\* exactly 30 non-null pH values, and a forecast was persisted.
C6_Witness ==
    /\ pc = "done"
    /\ ~fastMode
    /\ PhCount = 30
    /\ forecast.train = 1 /\ forecast.forecast = 1
    /\ ~ForecastNullOn(Persisted)

\* C7: the store holds the rows of earlier runs and, of this run, either every
\* record of the batch or none; all of them once the run is done, none when
\* it aborted.
C7_PersistAllOrNothing ==
    /\ SelectSeq(store, LAMBDA r : r.run = 0) = OldRows
    /\ Persisted = <<>> \/ Persisted = records
    /\ pc = "done" => Persisted = records
    /\ pc = "aborted" => Persisted = <<>>

\* C7 witness: the insert failed after some rows of the batch and before
\* others, the scope rolled back, and none of them is visible.
C7_Witness ==
    /\ pc = "aborted"
    /\ txn.state = "rolled_back"
    /\ txn.sent > 0 /\ txn.sent < Len(records)
    /\ Persisted = <<>>

\* C8: a run ends with an escaping exception only when the SST variable name
\* does not resolve or the persist step fails.
C8_OnlySstDriftOrPersistEscapes ==
    pc = "aborted" => exc \in {"sst_var", "persist"}

\* C9: the table fetch_noaa_crw returns has a dhw column that is null on no row.
C9_DhwNeverNull ==
    pc = "fetch_ph" =>
        /\ "dhw" \in noaa.cols
        /\ \A i \in 1..Len(noaa.rows) : ~IsNull(noaa.rows[i].dhw)

\* the run of C10: no date of the window resolved for SST or for DHW, the pH
\* URL is unset, the cache held and holds no file, the collaborators kept
\* every row, and the run is done
C10_Scenario ==
    /\ pc = "done"
    /\ sst = NotFound /\ dhw = NotFound
    /\ Len(gets) = 2 * DaysBack
    /\ phUrl = ""
    /\ fs = <<>>
    /\ collab.clean = "keep" /\ collab.merge = "keep"

Column(rows, c) == [i \in 1..Len(rows) |-> rows[i][c]]

----------------------------------------------------------------------------
(* Properties of the fast-mode cap *)

\* min(n, MAX_ROWS_FAST)
Capped(n) == IF n > MaxRowsFast THEN MaxRowsFast ELSE n

\* the records have been built and handed to the insert
Inserting == pc \in {"insert", "end_transaction", "done"}
                \/ (pc = "aborted" /\ txn.state # "none")

\* C11: the number of records handed to the insert is min(n, 5000) in a
\* fast-mode run and n in any other, n being the row count of the merged
\* table; a fast-mode run never persists more rows than the cap.
C11_FastModeCap ==
    /\ pc \in {"score", "forecast", "persist_init"} =>
          NRows(merged) = (IF fastMode THEN Capped(collab.rows) ELSE collab.rows)
    /\ Inserting =>
          Len(records) = (IF fastMode THEN Capped(collab.rows) ELSE collab.rows)
    /\ fastMode => Len(Persisted) <= MaxRowsFast
    /\ pc = "done" => Len(Persisted) = Len(records)

\* C11 witness: a fast-mode run over a merged table of 8000 rows is done with
\* exactly 5000 rows persisted.
C11_Witness ==
    /\ pc = "done"
    /\ fastMode
    /\ collab.rows = 8000
    /\ Len(Persisted) = 5000

----------------------------------------------------------------------------
(* Properties of the forecast value *)

\* the positions of the persisted rows that carry a forecast
ForecastRows == {i \in 1..Len(Persisted) : ~IsNull(Persisted[i].forecast_ph)}

\* C12: at most one persisted row has a non-null forecast_ph, it is the row
\* in the last position, and there is one only in a run whose forecast was
\* attempted and succeeded; whatever index labels the merged table carries.
C12_SingleForecastRow ==
    /\ Cardinality(ForecastRows) <= 1
    /\ ForecastRows \subseteq {Len(Persisted)}
    /\ ForecastRows # {} => forecast.outcome = "ok" /\ forecast.forecast = 1

----------------------------------------------------------------------------
(* Properties of the cache directory *)

\* C13: no step of any run writes a cache file that exists: every file keeps
\* the content it was created with, a step creates at most one file, and a
\* download whose file exists changes nothing.
C13_CacheNeverRewritten ==
    [][ /\ \A p \in DOMAIN fs : p \in DOMAIN fs' /\ fs'[p] = fs[p]
        /\ Cardinality(DOMAIN fs' \ DOMAIN fs) <= 1
        /\ last'.existed => fs' = fs ]_vars

\* C13 witness: the second run found the pH file the first run had
\* downloaded, and issued no GET for it.
C13_Witness ==
    /\ round > 0
    /\ last.path = PhPath /\ last.existed
    /\ ~last.get /\ fs[PhPath] \in PhBodies

----------------------------------------------------------------------------
(* Properties of two runs at once *)

\* C14: in every interleaving of two runs inside _download of one path, a run
\* that was told True (by the cache or by its own download) reads a file
\* that holds a complete response, never an empty or partly written one.
C14_RaceBenign ==
    \A p \in Procs :
        (race[p].pc = "read" /\ race[p].ok) => race[p].used \in served

----------------------------------------------------------------------------
(* Properties of the helpers *)

\* C15: _find_col returns None exactly when no candidate is a column, and
\* otherwise the candidate at the least position of the list that is a
\* column; it returns for every input.
C15_FindColFirstPresent ==
    (call.fn = "_find_col" /\ call.returned) =>
        LET hits == {i \in 1..Len(call.candidates) : call.candidates[i] \in call.cols}
        IN  /\ hits = {} <=> IsNull(call.col)
            /\ hits # {} =>
                  \E i \in hits : /\ call.col = Some(call.candidates[i])
                                   /\ \A j \in hits : i <= j
            /\ (call.cols = {"sea_surface_temperature", "lat", "lon"}
                 /\ call.candidates = SstCandidates)
                  => call.col = Some("sea_surface_temperature")

\* C15 witness: a call returned the second candidate, the first being absent
\* and the third present as well.
C15_Witness ==
    /\ call.fn = "_find_col" /\ call.returned
    /\ call.candidates = SstCandidates
    /\ call.cols = {"analysed_sst", "sea_surface_temperature", "lat", "lon"}
    /\ call.col = Some("analysed_sst")

\* The calendar: the days of a month, and the day before a date
IsLeap(y) == (y % 4 = 0 /\ y % 100 # 0) \/ y % 400 = 0
DaysInMonth(y, m) ==
    IF m = 2 THEN (IF IsLeap(y) THEN 29 ELSE 28)
    ELSE IF m \in {4, 6, 9, 11} THEN 30 ELSE 31
DayBefore(c) ==
    IF c.day > 1 THEN [year |-> c.year, month |-> c.month, day |-> c.day - 1]
    ELSE IF c.month > 1
    THEN [year |-> c.year, month |-> c.month - 1,
          day |-> DaysInMonth(c.year, c.month - 1)]
    ELSE [year |-> c.year - 1, month |-> 12, day |-> 31]

\* C16: _candidate_dates(N) returns N dates, today first, each next one the
\* calendar day before the previous; so they are distinct and strictly
\* descending.
C16_WindowDates ==
    (call.fn = "_candidate_dates" /\ call.returned) =>
        /\ Len(call.dates) = call.n
        /\ call.n > 0 => call.dates[1] = today
        /\ \A i \in 1..(call.n - 1) :
              /\ Civil(call.dates[i + 1]) = DayBefore(Civil(call.dates[i]))
              /\ Ymd(call.dates[i + 1]) < Ymd(call.dates[i])
        /\ \A i, j \in 1..call.n : i # j => Ymd(call.dates[i]) # Ymd(call.dates[j])

\* C16 witness: the window of 3 days of 2024-03-01 is 1 March, 29 February,
\* 28 February.
C16_Witness ==
    /\ call.fn = "_candidate_dates" /\ call.returned
    /\ today = 19783 /\ call.n = 3
    /\ [i \in 1..3 |-> Ymd(call.dates[i])] = <<20240301, 20240229, 20240228>>

----------------------------------------------------------------------------
(* Properties of the order of the stages *)

\* the steps of a run in the order of the stages: FETCH_ENV (the two locator
\* calls, the normalisation, the pH fetch), FETCH_EXTRA, CLEAN, INTEGRATE_PH,
\* SPATIAL_MERGE, SAMPLE, SCORE, FORECAST, PERSIST (init_db and the records,
\* the insert, the end of the transaction), DONE
StageOrder ==
    << "sst_locate", "dhw_locate", "normalize", "fetch_ph", "fetch_allen", "clean",
       "integrate_ph", "spatial_merge", "sample", "score", "forecast",
       "persist_init", "insert", "end_transaction", "done" >>
StagePos(p) == CHOOSE i \in 1..Len(StageOrder) : StageOrder[i] = p
PersistSteps == {"persist_init", "insert", "end_transaction"}

----------------------------------------------------------------------------
(* Properties of schema drift *)

\* fetch_noaa_crw is over (it returned or raised)
CrwOver == pc \notin {"sst_locate", "dhw_locate", "normalize"}

\* the file a locator result names, "" when it names none
FileOf(res) ==
    IF ~IsNull(res.path) /\ Exists(fs, res.path[1]) THEN fs[res.path[1]] ELSE ""

\* C18: when the resolved SST file carries none of the SST names,
\* fetch_noaa_crw raises and the run is aborted with nothing persisted; when
\* the SST file is well-formed and the resolved DHW file carries none of the
\* DHW names, fetch_noaa_crw raises nothing and dhw is 0.0 on every row of
\* the table it returned.
C18_DriftFatalOnlyForSst ==
    CrwOver =>
        /\ FileOf(sst) = "sst_drift" =>
              /\ pc = "aborted" /\ exc = "sst_var"
              /\ noaa = NoFrame /\ records = <<>>
              /\ store = OldRows
        /\ (FileOf(sst) \in {"sst_std", "sst_alias"} /\ FileOf(dhw) = "dhw_drift") =>
              /\ exc \notin {"sst_var", "open_sst", "open_dhw", "dhw_var"}
              /\ pc = "fetch_ph" => NRows(noaa) = GridN
              /\ "dhw" \in noaa.cols
              /\ \A i \in 1..NRows(noaa) : noaa.rows[i].dhw = Some(0)

\* C18 witness: a run whose DHW file resolved without a DHW name is done,
\* with dhw 0.0 on the rows it persisted.
C18_Witness ==
    /\ pc = "done"
    /\ FileOf(sst) = "sst_alias" /\ FileOf(dhw) = "dhw_drift"
    /\ Len(Persisted) > 0
    /\ \A i \in 1..Len(Persisted) : Persisted[i].dhw = Some(0)

\* a run whose SST file resolved without an SST name was aborted by
\* fetch_noaa_crw, its DHW file without a DHW name as well
C18_SstDriftReached ==
    /\ pc = "aborted" /\ exc = "sst_var"
    /\ FileOf(sst) = "sst_drift" /\ FileOf(dhw) = "dhw_drift"

----------------------------------------------------------------------------
(* Properties of fetch_noaa_ph *)

\* fetch_noaa_ph has run, and is the last call that went to the cache
PhOver == last.path = PhPath

\* fetch_noaa_ph returned (it raised nothing)
PhReturned == PhOver /\ exc \notin {"open_ph", "ph_col"}

\* C19: fetch_noaa_ph issues at most one GET, and none unless the URL is set
\* and the file absent; a failed download raises nothing out of it; with no
\* file after the attempt it returns the synthetic table of today; with the
\* URL unset it returns no other table.
C19_PhFetch ==
    PhOver =>
        /\ Cardinality({i \in 1..Len(gets) : gets[i] = <<phUrl>>}) <= 1
        /\ last.get => (phUrl # "" /\ ~last.existed)
        /\ (last.get /\ AttemptFails(last.resp)) => PhReturned
        /\ ~Exists(fs, PhPath) => (PhReturned /\ ph = SyntheticPh(today))
        /\ phUrl = "" => (PhReturned /\ ph = SyntheticPh(today))

----------------------------------------------------------------------------
(* Properties of the resolved path and date *)

\* a locator result (path, d) names the cache file of d under the prefix,
\* d is a date of the window, and the file is there
Resolved(res, prefix) ==
    /\ ~IsNull(res.date)
    /\ \E k \in 1..DaysBack : res.date[1] = WindowDate(k)
    /\ res.path[1] = <<prefix, Ymd(res.date[1])>>
    /\ Exists(fs, res.path[1])

\* C20: a result of _download_latest other than (None, None) is the cache
\* path rendered from its date, with a file at that path; and every row of
\* the table fetch_noaa_crw returned for a resolved SST file carries the SST
\* result's date, whatever date the DHW lookup resolved to.
C20_ResolvedPathAndDate ==
    /\ ~IsNull(sst.path) => Resolved(sst, SstPrefix)
    /\ ~IsNull(dhw.path) => Resolved(dhw, DhwPrefix)
    /\ (CrwOver /\ ~IsNull(sst.path)) =>
          /\ pc = "fetch_ph" => NRows(noaa) > 0
          /\ \A i \in 1..NRows(noaa) : noaa.rows[i].date = sst.date[1]

\* C20 witness: fetch_noaa_crw returned a table dated yesterday, the SST
\* lookup having resolved to yesterday and the DHW lookup to the day before.
C20_Witness ==
    /\ pc = "fetch_ph"
    /\ sst = Found(PathOf(SstPrefix, today - 1), today - 1)
    /\ dhw = Found(PathOf(DhwPrefix, today - 2), today - 2)
    /\ NRows(noaa) = GridN
    /\ \A i \in 1..NRows(noaa) : noaa.rows[i].date = today - 1

====
